---------------------------- MODULE Spec2Model ----------------------------
(***************************************************************************)
(* Model of cypress-parallel's adapter-based test discovery:               *)
(*   parse() / parserFactory / createTestGroups   (parsing.ts, current)    *)
(*   CypressBaseConfigParser (config locator, glob, parseTestOfType)       *)
(*   Cypress9ConfigParser, CypressJSConfigParser, CypressTSConfigParser    *)
(*                                                                         *)
(* Text is modelled as a sequence of tokens.  The value of the             *)
(* count-runners input is a sequence of characters; a path or a glob       *)
(* pattern is a sequence of words and separators ("/", ".", ",").          *)
(***************************************************************************)
EXTENDS Integers, Sequences, FiniteSets, TLC

VARIABLES
  fs,           \* the files below the working directory
  wdKind,       \* the working directory is a "dir", "missing" or a "file"
  readdirOrder, \* the order in which readdirSync lists entries
  countInput,   \* the text of the count-runners input
  pc,           \* position of parse()
  parser,       \* the adapter parserFactory returned, "none" before
  created,      \* the adapters constructed so far, in order
  calls,        \* the adapter methods invoked so far, in order
  loaded,       \* the result of the adapter's loadConfig
  testFiles,    \* the TestFiles parseTests returned
  outputs,      \* the setOutput calls so far, in order
  failures,     \* the setFailed messages so far, in order
  gCount,     \* createTestGroups harness: the raw count-runners text
  gTests,     \* createTestGroups harness: the tests argument
  gResult,    \* createTestGroups harness: the returned array
  gpc,        \* createTestGroups harness: "call" | "returned"
  hTree,      \* discovery harness: the files on disk, relative to a base directory
  hCwd,       \* discovery harness: the process's current directory
  hWorkingDirectory, \* discovery harness: the working-directory input
  hOrder,     \* discovery harness: the order of readdirSync
  hParser,    \* discovery harness: what parserFactory returned
  hContent,   \* discovery harness: what the selected config file holds
  hConfig,    \* discovery harness: what loadConfig returned
  hLog,       \* discovery harness: the parseTestOfType calls and their results
  hTests,     \* discovery harness: what parseTests returned
  hpc,        \* discovery harness: "select" | "parse" | "parsed"
  hFollowSymbolicLinks, \* discovery harness: the follow-symbolic-links input
  hEffects,   \* discovery harness: the directories and files loadConfig
              \* created and the modules it loaded in this invocation, in order
  hRequireCache, \* discovery harness: the modules require() has loaded in
              \* this process, by path
  hRuns       \* discovery harness: the invocations of this process so far

gvars == <<gCount, gTests, gResult, gpc>>

hvars == <<hTree, hCwd, hWorkingDirectory, hOrder, hParser, hContent, hConfig,
           hLog, hTests, hpc, hFollowSymbolicLinks, hEffects, hRequireCache,
           hRuns>>

pvars == <<fs, wdKind, readdirOrder, countInput, pc, parser, created, calls,
           loaded, testFiles, outputs, failures>>

vars == <<fs, wdKind, readdirOrder, countInput, pc, parser, created, calls,
          loaded, testFiles, outputs, failures, gCount, gTests, gResult, gpc,
          hTree, hCwd, hWorkingDirectory, hOrder, hParser, hContent, hConfig,
          hLog, hTests, hpc, hFollowSymbolicLinks, hEffects, hRequireCache,
          hRuns>>

(***************************************************************************)
(* Bounds                                                                  *)
(***************************************************************************)
MaxTests == 7      \* longest tests array handed to createTestGroups
MaxCount == 6      \* largest integer count-runners value that is enumerated
MaxRuns == 2       \* most invocations of parse() in one process

(***************************************************************************)
(* Generic helpers                                                         *)
(***************************************************************************)
Min(a, b) == IF a < b THEN a ELSE b

Range(s) == {s[i] : i \in 1..Len(s)}

SeqsUpTo(S, n) == UNION {[1..k -> S] : k \in 0..n}

RECURSIVE Pow10(_)
Pow10(k) == IF k = 0 THEN 1 ELSE 10 * Pow10(k - 1)

(***************************************************************************)
(* Number(text): the JavaScript string-to-number conversion, restricted to *)
(* the alphabet of blanks, signs, decimal digits, "." and the word         *)
(* Infinity.  A number is NaN, +/-Infinity or a finite rational n/d.       *)
(***************************************************************************)
NaN == [k |-> "nan"]
Infinity(neg) == [k |-> "inf", neg |-> neg]
Fin(n, d) == [k |-> "fin", n |-> n, d |-> d]

Digits == <<"0", "1", "2", "3", "4", "5", "6", "7", "8", "9">>

IsDigit(c) == c \in Range(Digits)

DigitVal(c) == (CHOOSE i \in 1..10 : Digits[i] = c) - 1

RECURSIVE TrimLeft(_)
TrimLeft(s) == IF s # <<>> /\ Head(s) = " " THEN TrimLeft(Tail(s)) ELSE s

RECURSIVE TrimRight(_)
TrimRight(s) ==
  IF s # <<>> /\ s[Len(s)] = " " THEN TrimRight(SubSeq(s, 1, Len(s) - 1)) ELSE s

Trim(s) == TrimRight(TrimLeft(s))

RECURSIVE DigitsVal(_)
DigitsVal(s) ==
  IF s = <<>> THEN 0
  ELSE 10 * DigitsVal(SubSeq(s, 1, Len(s) - 1)) + DigitVal(s[Len(s)])

AllDigits(s) == \A i \in 1..Len(s) : IsDigit(s[i])

InfinityWord == <<"I", "n", "f", "i", "n", "i", "t", "y">>

\* StrUnsignedDecimalLiteral: Infinity | digits [. [digits]] | . digits
UnsignedNumber(s, neg) ==
  LET sign == IF neg THEN -1 ELSE 1
      dots == {i \in 1..Len(s) : s[i] = "."}
  IN  IF s = InfinityWord THEN Infinity(neg)
      ELSE IF s = <<>> THEN NaN
      ELSE IF dots = {} THEN
        IF AllDigits(s) THEN Fin(sign * DigitsVal(s), 1) ELSE NaN
      ELSE IF Cardinality(dots) > 1 THEN NaN
      ELSE
        LET p    == CHOOSE i \in dots : TRUE
            int  == SubSeq(s, 1, p - 1)
            frac == SubSeq(s, p + 1, Len(s))
        IN  IF Len(int) + Len(frac) = 0 \/ ~AllDigits(int) \/ ~AllDigits(frac)
            THEN NaN
            ELSE Fin(sign * (DigitsVal(int) * Pow10(Len(frac)) + DigitsVal(frac)),
                     Pow10(Len(frac)))

Number(text) ==
  LET s == Trim(text)
  IN  IF s = <<>> THEN Fin(0, 1)
      ELSE IF Head(s) = "-" THEN UnsignedNumber(Tail(s), TRUE)
      ELSE IF Head(s) = "+" THEN UnsignedNumber(Tail(s), FALSE)
      ELSE UnsignedNumber(s, FALSE)

isNaN(x) == x.k = "nan"

\* x <= 0
LeqZero(x) ==
  CASE x.k = "nan" -> FALSE
    [] x.k = "inf" -> x.neg
    [] x.k = "fin" -> x.n <= 0

IsPositiveInteger(x) == x.k = "fin" /\ x.n > 0 /\ x.n % x.d = 0

IntegerValue(x) == x.n \div x.d

\* mutant: Math.floor in place of Math.ceil
FloorOfQuotient(len, x) ==
  IF x.k = "inf" THEN 0
  ELSE (len * x.d) \div x.n

\* Math.ceil(len / x) for a number x > 0 and an array length len
CeilOfQuotient(len, x) ==
  IF x.k = "inf" THEN 0
  ELSE (len * x.d + x.n - 1) \div x.n

(***************************************************************************)
(* createTestGroups                                                        *)
(***************************************************************************)
\* Array.prototype.join(","): the entries separated by one "," token
RECURSIVE Join(_)
Join(group) ==
  IF group = <<>> THEN <<>>
  ELSE IF Len(group) = 1 THEN group[1]
  ELSE group[1] \o <<",">> \o Join(Tail(group))

\* the reduce callback, applied to the items index..Len(tests)-1 (0-based)
RECURSIVE ReduceGroups(_, _, _, _)
ReduceGroups(groups, tests, index, testCountByChunk) ==
  IF index >= Len(tests) THEN groups
  ELSE
    LET chunkIndex == index \div testCountByChunk
        started    == IF chunkIndex + 1 > Len(groups)
                      THEN Append(groups, <<>>)
                      ELSE groups
        pushed     == [started EXCEPT ![chunkIndex + 1] =
                         Append(@, tests[index + 1])]
    IN  ReduceGroups(pushed, tests, index + 1, testCountByChunk)

\* the grouping of createTestGroups, for a valid group count
GroupTests(groupCount, tests) ==
  LET grouped(testCountByChunk) ==
        \* with a chunk size of 0 every chunkIndex is NaN or Infinity, which
        \* is no array index: the reduced array stays empty
        IF testCountByChunk = 0 THEN <<>>
        ELSE LET joined(groups) == [i \in 1..Len(groups) |-> Join(groups[i])]
             IN  joined(ReduceGroups(<<>>, tests, 0, testCountByChunk))
  IN  grouped(CeilOfQuotient(Len(tests), groupCount))

\* mutant: the chunk size is the group count, not ceil(length / group count)
createTestGroups_ChunkOfCount(groupCount, tests) ==
  IF isNaN(groupCount) \/ LeqZero(groupCount) THEN tests
  ELSE IF ~IsPositiveInteger(groupCount) THEN GroupTests(groupCount, tests)
  ELSE LET joined(groups) == [i \in 1..Len(groups) |-> Join(groups[i])]
       IN  joined(ReduceGroups(<<>>, tests, 0, IntegerValue(groupCount)))

\* mutant: an invalid group count is taken as one runner
createTestGroups_InvalidAsOne(groupCount, tests) ==
  IF isNaN(groupCount) \/ LeqZero(groupCount) THEN GroupTests(Fin(1, 1), tests)
  ELSE GroupTests(groupCount, tests)

createTestGroups(groupCount, tests) ==
  \* If the group count isn't valid, just return the tests
  IF isNaN(groupCount) \/ LeqZero(groupCount) THEN tests
  ELSE GroupTests(groupCount, tests)

(***************************************************************************)
(* The file tree below the working directory.  A path is relative to the   *)
(* working directory; directories are the proper prefixes of file paths.   *)
(***************************************************************************)
CONFIG_TS   == <<"cypress", ".", "config", ".", "ts">>
CONFIG_JS   == <<"cypress", ".", "config", ".", "js">>
CONFIG_MJS  == <<"cypress", ".", "config", ".", "mjs">>
CONFIG_CJS  == <<"cypress", ".", "config", ".", "cjs">>
CONFIG_JSON == <<"cypress", ".", "json">>

E2E_FILE    == <<"cypress", "/", "e2e", "/", "a", ".", "cy", ".", "ts">>
INT_FILE    == <<"cypress", "/", "integration", "/", "t1", ".", "ts">>
COMP_FILE   == <<"src", "/", "b", ".", "cy", ".", "ts">>
NESTED_JSON == <<"node_modules", "/", "pkg", "/", "cypress", ".", "json">>

ConfigFiles == {CONFIG_TS, CONFIG_JS, CONFIG_MJS, CONFIG_JSON, NESTED_JSON}

TestFilePool == {E2E_FILE, INT_FILE, COMP_FILE}

\* a directory entry that is a symbolic link carries this token after its
\* name; LINK_FILE is a link to a spec file, LINKED_FILE a spec file that is
\* reached only through the link `linked` to a directory
SYMLINK     == "->"
LINK_FILE   == <<"cypress", "/", "e2e", "/", "l", ".", "cy", ".", "ts", SYMLINK>>
LINKED_FILE == <<"linked", SYMLINK, "/", "c", ".", "cy", ".", "ts">>

\* the order in which readdirSync returns the entries of a directory is the
\* platform's: the entries in this order, or in the reverse of it
EntryNames ==
  << <<"cypress">>, CONFIG_JS, CONFIG_MJS, CONFIG_TS, CONFIG_JSON,
     <<"node_modules">>, <<"src">>, <<"e2e">>, <<"integration">>, <<"pkg">>,
     <<"a", ".", "cy", ".", "ts">>, <<"b", ".", "cy", ".", "ts">>,
     <<"t1", ".", "ts">>, <<"other">>, <<"project">>, <<"t2", ".", "ts">>,
     <<"l", ".", "cy", ".", "ts", SYMLINK>>, <<"linked", SYMLINK>>,
     <<"c", ".", "cy", ".", "ts">> >>

Reverse(s) == [i \in 1..Len(s) |-> s[Len(s) + 1 - i]]

IsPrefix(p, s) == Len(p) <= Len(s) /\ SubSeq(s, 1, Len(p)) = p

\* the tokens of a path up to its first "/"
FirstSegment(path) ==
  IF \A i \in 1..Len(path) : path[i] # "/" THEN path
  ELSE LET p == CHOOSE i \in 1..Len(path) :
                  path[i] = "/" /\ \A j \in 1..(i - 1) : path[j] # "/"
       IN  SubSeq(path, 1, p - 1)

\* path.basename: the tokens after the last "/"
Basename(path) ==
  IF \A i \in 1..Len(path) : path[i] # "/" THEN path
  ELSE LET p == CHOOSE i \in 1..Len(path) :
                  path[i] = "/" /\ \A j \in (i + 1)..Len(path) : path[j] # "/"
       IN  SubSeq(path, p + 1, Len(path))

\* path.join(a, b) of two normalized relative paths
PathJoin(a, b) ==
  IF a = <<>> THEN b ELSE IF b = <<>> THEN a ELSE a \o <<"/">> \o b

\* the files of `files` below directory dir, relative to dir; the paths of
\* `files` are relative to the working directory, a file outside of it has a
\* path that starts with ".."
Below(files, dir) ==
  IF dir = <<>> THEN {f \in files : Head(f) # ".."}
  ELSE {SubSeq(f, Len(dir) + 2, Len(f)) : f \in {g \in files : IsPrefix(dir \o <<"/">>, g)}}

(***************************************************************************)
(* minimatch(path, pattern, {dot: true, matchBase: true})                  *)
(***************************************************************************)
\* brace expansion of one pattern token
BraceWords(tok) ==
  IF tok = "{js,jsx,ts,tsx}" THEN {"js", "jsx", "ts", "tsx"} ELSE {tok}

RECURSIVE MatchOne(_, _)
MatchOne(pat, path) ==
  IF pat = <<>> THEN path = <<>>
  ELSE IF Head(pat) = "**" THEN
    IF Len(pat) = 1 THEN path # <<>>        \* a trailing ** swallows the rest
    ELSE \/ MatchOne(SubSeq(pat, 3, Len(pat)), path)
         \/ /\ FirstSegment(path) # path
            /\ MatchOne(pat, SubSeq(path, Len(FirstSegment(path)) + 2, Len(path)))
  ELSE IF Head(pat) = "*" THEN
    \E k \in 0..Len(path) :
      /\ \A i \in 1..k : path[i] # "/"
      /\ MatchOne(Tail(pat), SubSeq(path, k + 1, Len(path)))
  ELSE /\ path # <<>>
       /\ Head(path) \in BraceWords(Head(pat))
       /\ MatchOne(Tail(pat), Tail(path))

minimatch(path, pattern) ==
  IF \A i \in 1..Len(pattern) : pattern[i] # "/"
  THEN MatchOne(pattern, Basename(path))     \* matchBase
  ELSE MatchOne(pattern, path)

(***************************************************************************)
(* CypressBaseConfigParser.glob                                            *)
(* A result is [ok |-> TRUE, val |-> v] or [ok |-> FALSE, err |-> e].      *)
(***************************************************************************)
Ok(v) == [ok |-> TRUE, val |-> v, err |-> "no error"]
Throw(e) == [ok |-> FALSE, val |-> <<>>, err |-> e]

\* a pattern value that is no string (e.g. a number in the configuration)
NotAString == <<"#number">>

RECURSIVE FlattenSeqs(_)
FlattenSeqs(ss) == IF ss = <<>> THEN <<>> ELSE Head(ss) \o FlattenSeqs(Tail(ss))

SelectNames(order, names) == SelectSeq(order, LAMBDA n : n \in names)

\* mutant: a symbolic link counts as what it points to
DirentKind_LinksFollowed(files, entry) ==
  IF entry \in files THEN "file" ELSE "directory"

\* the Dirent of readdirSync(dir, {withFileTypes: true}): for a symbolic
\* link neither isDirectory() nor isFile() holds
DirentKind(files, entry) ==
  IF entry[Len(entry)] = SYMLINK THEN "symlink"
  ELSE IF entry \in files THEN "file"
  ELSE "directory"

\* listFiles(dir): depth first, the entries of each directory in readdir order
RECURSIVE listFiles(_, _)
listFiles(files, order) ==
  LET entries == SelectNames(order, {FirstSegment(f) : f \in files})
      entry(i) ==
        IF DirentKind(files, entries[i]) = "directory"
        THEN LET sub == listFiles(Below(files, entries[i]), order)
             IN  [j \in 1..Len(sub) |-> PathJoin(entries[i], sub[j])]
        ELSE IF DirentKind(files, entries[i]) = "file" THEN <<entries[i]>>
        ELSE <<>>
  IN  FlattenSeqs([i \in 1..Len(entries) |-> entry(i)])

\* pattern.some(p => minimatch(f, p)): a pattern that is no string makes
\* minimatch throw when it is reached
RECURSIVE SomeMatch(_, _)
SomeMatch(f, pattern) ==
  IF pattern = <<>> THEN "false"
  ELSE IF Head(pattern) = NotAString THEN "throws"
  ELSE IF minimatch(f, Head(pattern)) THEN "true"
  ELSE SomeMatch(f, Tail(pattern))

\* mutant: the ignore patterns are not applied
FilterIgnored_None(list, ignorePattern) == list

RECURSIVE FilterIgnored(_, _)
FilterIgnored(list, ignorePattern) ==
  IF ignorePattern = <<>> THEN list
  ELSE FilterIgnored(SelectSeq(list, LAMBDA f : ~minimatch(f, Head(ignorePattern))),
                     Tail(ignorePattern))

\* exists: the root is the working directory, a directory or a file of the tree
RootKind(tree, wd, root) ==
  IF wd # "dir" THEN wd
  ELSE IF root = <<>> THEN "dir"
  ELSE IF root \in tree THEN "file"
  ELSE IF Below(tree, root) # {} THEN "dir"
  ELSE "missing"

\* the two filter passes of glob over the listed files
FilterFiles(files, pattern, ignorePattern) ==
  LET matched == [i \in 1..Len(files) |-> SomeMatch(files[i], pattern)]
      kept == {i \in 1..Len(files) : matched[i] = "true"}
  IN  IF \E i \in 1..Len(files) : matched[i] = "throws"
      THEN Throw("TypeError: glob pattern string required")
      ELSE Ok(FilterIgnored(
                SelectSeq(files, LAMBDA f : \E i \in kept : files[i] = f),
                ignorePattern))

glob(tree, wd, order, root, pattern, ignorePattern) ==
  LET listed(kind) ==
        IF kind = "missing" THEN Ok(<<>>)
        ELSE IF kind = "file" THEN Throw("ENOTDIR: not a directory, scandir")
        ELSE FilterFiles(listFiles(Below(tree, root), order), pattern, ignorePattern)
  IN  listed(RootKind(tree, wd, root))

(***************************************************************************)
(* Config locator: hasConfigFile / getConfigFile                           *)
(***************************************************************************)
Adapters == <<"TS", "JS", "JSON">>

VALID_CONFIG_FILE_NAMES(adapter) ==
  CASE adapter = "TS"   -> <<CONFIG_TS>>
    [] adapter = "JS"   -> <<CONFIG_JS, CONFIG_MJS, CONFIG_CJS>>
    [] adapter = "JSON" -> <<CONFIG_JSON>>

\* the null returned when no single config file is found
NoPath == <<"#null">>

\* mutant: with several candidates the first one is returned
getConfigFile_FirstOfMany(adapter, tree, wd, order) ==
  LET single(results) ==
        IF ~results.ok THEN results
        ELSE IF Len(results.val) = 0 THEN Ok(NoPath)
        ELSE Ok(results.val[1])
  IN  single(glob(tree, wd, order, <<>>, VALID_CONFIG_FILE_NAMES(adapter), <<>>))

getConfigFile(adapter, tree, wd, order) ==
  LET single(results) ==
        IF ~results.ok THEN results
        ELSE IF Len(results.val) = 0 THEN Ok(NoPath)
        ELSE IF Len(results.val) > 1 THEN Ok(NoPath)
        ELSE Ok(results.val[1])
  IN  single(glob(tree, wd, order, <<>>, VALID_CONFIG_FILE_NAMES(adapter), <<>>))

hasConfigFile(adapter, tree, wd, order) ==
  LET found(configFilePath) ==
        IF ~configFilePath.ok THEN configFilePath
        ELSE Ok(configFilePath.val # NoPath)
  IN  found(getConfigFile(adapter, tree, wd, order))

\* mutant: the legacy adapter is returned when no config file is found
parserFactory_LegacyFallback(tree, wd, order) ==
  LET chain(hasTS, hasJS) ==
        IF ~hasTS.ok THEN hasTS
        ELSE IF hasTS.val THEN Ok("TS")
        ELSE IF ~hasJS.ok THEN hasJS
        ELSE IF hasJS.val THEN Ok("JS")
        ELSE Ok("JSON")
  IN  chain(hasConfigFile("TS", tree, wd, order),
            hasConfigFile("JS", tree, wd, order))

\* mutant: the plain-script config is tried before the typed-script config
parserFactory_JSFirst(tree, wd, order) ==
  LET chain(hasTS, hasJS, hasJSON) ==
        IF ~hasJS.ok THEN hasJS
        ELSE IF hasJS.val THEN Ok("JS")
        ELSE IF ~hasTS.ok THEN hasTS
        ELSE IF hasTS.val THEN Ok("TS")
        ELSE IF ~hasJSON.ok THEN hasJSON
        ELSE IF hasJSON.val THEN Ok("JSON")
        ELSE Ok("none")
  IN  chain(hasConfigFile("TS", tree, wd, order),
            hasConfigFile("JS", tree, wd, order),
            hasConfigFile("JSON", tree, wd, order))

\* the adapter constructed, "none" for null, or the exception of a lookup
parserFactory(tree, wd, order) ==
  LET chain(hasTS, hasJS, hasJSON) ==
        IF ~hasTS.ok THEN hasTS
        ELSE IF hasTS.val THEN Ok("TS")
        ELSE IF ~hasJS.ok THEN hasJS
        ELSE IF hasJS.val THEN Ok("JS")
        ELSE IF ~hasJSON.ok THEN hasJSON
        ELSE IF hasJSON.val THEN Ok("JSON")
        ELSE Ok("none")
  IN  chain(hasConfigFile("TS", tree, wd, order),
            hasConfigFile("JS", tree, wd, order),
            hasConfigFile("JSON", tree, wd, order))

(***************************************************************************)
(* Configuration values.  A field of a configuration object is undefined,  *)
(* a string, an array of strings or a number (a value of a wrong type).    *)
(* A string field holds its one string in v, an array field its entries.   *)
(***************************************************************************)
Undefined == [t |-> "undefined", v |-> <<>>]
Str(x)    == [t |-> "string", v |-> <<x>>]
Array(xs) == [t |-> "array", v |-> xs]
Num       == [t |-> "number", v |-> <<>>]

\* JavaScript truthiness of a field (the number of the model is not 0)
Truthy(x) ==
  CASE x.t = "undefined" -> FALSE
    [] x.t = "string"    -> x.v[1] # <<>>
    [] OTHER             -> TRUE

P_ALL      == <<"**", "/", "*", ".", "*">>
P_E2E      == <<"cypress", "/", "e2e", "/", "**", "/", "*", ".", "cy", ".", "{js,jsx,ts,tsx}">>
P_COMPONENT == <<"**", "/", "*", ".", "cy", ".", "{js,jsx,ts,tsx}">>
P_NODE_MODULES == <<"**", "/", "node_modules", "/", "**">>
P_HOT_UPDATE == <<"*", ".", "hot-update", ".", "js">>
P_SNAPSHOTS == <<"/", "snapshots", "/", "*">>
P_IMAGE_SNAPSHOTS == <<"/", "image_snapshots", "/", "*">>
\* patterns a user configures
P_TS       == <<"**", "/", "*", ".", "ts">>
P_SRC      == <<"src", "/", "**">>

(***************************************************************************)
(* CypressBaseConfigParser.parseTestOfType                                 *)
(***************************************************************************)
parseTestOfType(tree, wd, order, testFolder, specPattern, excludeSpecPattern) ==
  LET filePatterns ==
        IF specPattern.t = "array" THEN specPattern.v
        ELSE IF specPattern.t = "string" THEN specPattern.v
        ELSE <<NotAString>>
      ignoreFilePatterns ==
        IF Truthy(excludeSpecPattern) THEN excludeSpecPattern.v ELSE <<>>
  IN  IF testFolder.t # "string"
      THEN Throw("TypeError: The \"path\" argument must be of type string")
      ELSE LET joined(files) ==
                 IF ~files.ok THEN files
                 ELSE Ok([i \in 1..Len(files.val) |->
                            PathJoin(testFolder.v[1], files.val[i])])
           IN  joined(glob(tree, wd, order, testFolder.v[1],
                           filePatterns, ignoreFilePatterns))

TestFiles(integrationTests, hasComponentTests, componentTests) ==
  [integrationTests |-> integrationTests,
   hasComponentTests |-> hasComponentTests,
   componentTests |-> componentTests]

\* what the catch clause of parseTests returns
AllEmptyTestFiles == TestFiles(<<>>, TRUE, <<>>)

(***************************************************************************)
(* Cypress9ConfigParser                                                    *)
(***************************************************************************)
DEFAULT_INTEGRATION_FOLDER == <<"cypress", "/", "integration">>
DEFAULT_TEST_FILES == P_ALL

\* the text of cypress.json: malformed, or an object with optional fields
LegacyContents ==
  {[malformed |-> TRUE, integrationFolder |-> Undefined, componentFolder |-> Undefined,
    testFiles |-> Undefined, ignoreTestFiles |-> Undefined]}
  \cup
  [malformed : {FALSE},
   integrationFolder : {Undefined, Str(<<"src">>), Str(CONFIG_JSON), Num},
   componentFolder : {Undefined, Str(<<"src">>), Str(<<>>)},
   testFiles : {Undefined, Str(P_COMPONENT), Num},
   ignoreTestFiles : {Undefined, Str(P_TS)}]

\* mutant: cypress.json is read without looking it up again
Cypress9_loadConfig_NoLookup(content, tree, wd, order) ==
  IF content.malformed
  THEN Throw("SyntaxError: Unexpected token in JSON")
  ELSE Ok([integrationFolder |->
             IF content.integrationFolder.t = "undefined"
             THEN Str(DEFAULT_INTEGRATION_FOLDER) ELSE content.integrationFolder,
           testFiles |->
             IF content.testFiles.t = "undefined"
             THEN Str(DEFAULT_TEST_FILES) ELSE content.testFiles,
           componentFolder |-> content.componentFolder,
           ignoreTestFiles |-> content.ignoreTestFiles])

\* mutant: the defaults are spread after the file's fields and override them
Cypress9_loadConfig_DefaultsWin(content, tree, wd, order) ==
  LET load(configFilePath) ==
      IF ~configFilePath.ok THEN configFilePath
      ELSE IF configFilePath.val = NoPath
      THEN Throw("Error: no supported config file found.")
      ELSE IF content.malformed
      THEN Throw("SyntaxError: Unexpected token in JSON")
      ELSE Ok([integrationFolder |-> Str(DEFAULT_INTEGRATION_FOLDER),
               testFiles |-> Str(DEFAULT_TEST_FILES),
               componentFolder |-> content.componentFolder,
               ignoreTestFiles |-> content.ignoreTestFiles])
  IN  load(getConfigFile("JSON", tree, wd, order))

\* {integrationFolder: DEFAULT, testFiles: DEFAULT, ...config}
Cypress9_loadConfig(content, tree, wd, order) ==
  LET load(configFilePath) ==
      IF ~configFilePath.ok THEN configFilePath
      ELSE IF configFilePath.val = NoPath
      THEN Throw("Error: no supported config file found.")
      ELSE IF content.malformed
      THEN Throw("SyntaxError: Unexpected token in JSON")
      ELSE Ok([integrationFolder |->
                 IF content.integrationFolder.t = "undefined"
                 THEN Str(DEFAULT_INTEGRATION_FOLDER) ELSE content.integrationFolder,
               testFiles |->
                 IF content.testFiles.t = "undefined"
                 THEN Str(DEFAULT_TEST_FILES) ELSE content.testFiles,
               componentFolder |-> content.componentFolder,
               ignoreTestFiles |-> content.ignoreTestFiles])
  IN  load(getConfigFile("JSON", tree, wd, order))

\* mutant: componentTests is an empty array when componentFolder is not set
Cypress9_tryParseTests_EmptyComponent(config, tree, wd, order) ==
  IF ~config.ok THEN config
  ELSE
    LET both(integrationTests, componentTests) ==
          IF ~integrationTests.ok THEN integrationTests
          ELSE IF ~Truthy(config.val.componentFolder)
          THEN Ok(TestFiles(integrationTests.val, TRUE, <<>>))
          ELSE IF ~componentTests.ok THEN componentTests
          ELSE Ok(TestFiles(integrationTests.val, TRUE, componentTests.val))
    IN  both(parseTestOfType(tree, wd, order, config.val.integrationFolder,
                             config.val.testFiles, config.val.ignoreTestFiles),
             parseTestOfType(tree, wd, order, config.val.componentFolder,
                             config.val.testFiles, config.val.ignoreTestFiles))

\* the try block of parseTests, given the result of loadConfig
Cypress9_tryParseTests(config, tree, wd, order) ==
  IF ~config.ok THEN config
  ELSE
    LET both(integrationTests, componentTests) ==
          IF ~integrationTests.ok THEN integrationTests
          ELSE IF ~Truthy(config.val.componentFolder)
          THEN Ok(TestFiles(integrationTests.val, FALSE, <<>>))
          ELSE IF ~componentTests.ok THEN componentTests
          ELSE Ok(TestFiles(integrationTests.val, TRUE, componentTests.val))
    IN  both(parseTestOfType(tree, wd, order, config.val.integrationFolder,
                             config.val.testFiles, config.val.ignoreTestFiles),
             parseTestOfType(tree, wd, order, config.val.componentFolder,
                             config.val.testFiles, config.val.ignoreTestFiles))

\* mutant: no catch clause, the exception leaves parseTests
CatchAll_Rethrow(tried) == tried

\* try { ... } catch (e) { return {integrationTests: [], componentTests: []} }
CatchAll(tried) == IF tried.ok THEN tried ELSE Ok(AllEmptyTestFiles)

Cypress9_parseTests(config, tree, wd, order) ==
  CatchAll(Cypress9_tryParseTests(config, tree, wd, order))

(***************************************************************************)
(* CypressConfigParser (cypress.config.js / .mjs / .cjs / .ts)             *)
(***************************************************************************)
\* mutant: no pattern is excluded in every case
DEFAULT_EXCLUDE_SPEC_PATTERNS_Empty == <<>>

DEFAULT_EXCLUDE_SPEC_PATTERNS == <<P_NODE_MODULES>>

Section(present, specPattern, excludeSpecPattern) ==
  [present |-> present, specPattern |-> specPattern,
   excludeSpecPattern |-> excludeSpecPattern]

NoSection == Section(FALSE, Undefined, Undefined)

E2ESections ==
  {NoSection, Section(TRUE, Str(P_TS), Undefined), Section(TRUE, Num, Undefined)}

ComponentSections ==
  {NoSection, Section(TRUE, Undefined, Array(<<P_SRC>>)),
   Section(TRUE, Num, Undefined), Section(TRUE, Undefined, Num)}

\* the config script: transpiling it reports diagnostics (cypress.config.ts
\* only), loading it throws, or it exports an object, directly or wrapped
\* as {default: ...}
ModernScript(diagnostics, loadThrows, hasDefault, e2e, component) ==
  [diagnostics |-> diagnostics, loadThrows |-> loadThrows,
   hasDefault |-> hasDefault, e2e |-> e2e, component |-> component]

ModernContents ==
  {ModernScript(TRUE, FALSE, FALSE, NoSection, NoSection),
   ModernScript(FALSE, TRUE, FALSE, NoSection, NoSection)}
  \cup
  {ModernScript(FALSE, FALSE, d, e, c) :
     d \in BOOLEAN, e \in E2ESections, c \in ComponentSections}

\* require(path): the exported object; with a default export the sections
\* are fields of rawConfig.default, not of rawConfig
ModuleExports(content) ==
  IF content.hasDefault
  THEN [hasDefault |-> TRUE, e2e |-> NoSection, component |-> NoSection,
        default |-> [e2e |-> content.e2e, component |-> content.component]]
  ELSE [hasDefault |-> FALSE, e2e |-> content.e2e, component |-> content.component,
        default |-> [e2e |-> NoSection, component |-> NoSection]]

\* [...a, ...b]: spreading a value that is no array throws
Spread(x) == IF x.t = "array" THEN Ok(x.v) ELSE Throw("TypeError: not iterable")

\* mutant: a string is not wrapped into an array
AsArray_Unwrapped(x) == x

\* typeof x === "string" ? [x] : x
AsArray(x) == IF x.t = "string" THEN Array(x.v) ELSE x

\* mutant: the e2e spec patterns are not among the component excludes
ComponentExcludes_WithoutE2E(e2eSpecPattern, rest) ==
  DEFAULT_EXCLUDE_SPEC_PATTERNS \o rest

\* [...DEFAULT_EXCLUDE_SPEC_PATTERNS, ...e2eSpecPattern, <the rest>]
ComponentExcludes(e2eSpecPattern, rest) ==
  DEFAULT_EXCLUDE_SPEC_PATTERNS \o e2eSpecPattern \o rest

\* mutant: an object exported as default is not unwrapped
UnwrapDefault_Never(rawConfig) ==
  [e2e |-> rawConfig.e2e, component |-> rawConfig.component]

\* "default" in rawConfig ? rawConfig.default : rawConfig
UnwrapDefault(rawConfig) ==
  IF rawConfig.hasDefault THEN rawConfig.default
  ELSE [e2e |-> rawConfig.e2e, component |-> rawConfig.component]

processConfig(content) ==
  IF content.loadThrows THEN Throw("Error: cannot load the config module")
  ELSE
    LET rawConfig == ModuleExports(content)
        config == UnwrapDefault(rawConfig)
        e2eSpecPattern ==
          IF config.e2e.present /\ config.e2e.specPattern.t # "undefined"
          THEN AsArray(config.e2e.specPattern)
          ELSE Array(<<P_E2E>>)
        e2eExcludeSpecPattern ==
          IF config.e2e.present /\ config.e2e.excludeSpecPattern.t # "undefined"
          THEN LET x == Spread(AsArray(config.e2e.excludeSpecPattern))
               IN  IF x.ok THEN Ok(DEFAULT_EXCLUDE_SPEC_PATTERNS \o x.val) ELSE x
          ELSE Ok(DEFAULT_EXCLUDE_SPEC_PATTERNS \o <<P_HOT_UPDATE>>)
        e2eSpread == Spread(e2eSpecPattern)
        componentSpecPattern ==
          IF config.component.present /\ config.component.specPattern.t # "undefined"
          THEN AsArray(config.component.specPattern)
          ELSE Array(<<P_COMPONENT>>)
        componentExcludeSpecPattern ==
          IF config.component.present
             /\ config.component.excludeSpecPattern.t # "undefined"
          THEN LET x == Spread(AsArray(config.component.excludeSpecPattern))
               IN  IF x.ok
                   THEN Ok(ComponentExcludes(e2eSpread.val, x.val))
                   ELSE x
          ELSE Ok(ComponentExcludes(e2eSpread.val,
                                    <<P_SNAPSHOTS, P_IMAGE_SNAPSHOTS>>))
    IN  IF ~e2eExcludeSpecPattern.ok THEN e2eExcludeSpecPattern
        ELSE IF ~e2eSpread.ok THEN e2eSpread
        ELSE IF ~componentExcludeSpecPattern.ok THEN componentExcludeSpecPattern
        ELSE Ok([e2e |-> [specPattern |-> e2eSpecPattern,
                          excludeSpecPattern |-> Array(e2eExcludeSpecPattern.val)],
                 component |-> [specPattern |-> componentSpecPattern,
                                excludeSpecPattern |->
                                  Array(componentExcludeSpecPattern.val)]])

(***************************************************************************)
(* What loadConfig leaves behind: the directories and files it creates     *)
(* and the modules it hands to require(), in the order of the calls        *)
(***************************************************************************)
Effect(op, path) == [op |-> op, path |-> path]

\* os.tmpdir(): an absolute path, where the paths of a tree are relative
TMP_ROOT == <<"/", "tmp">>

\* mutant: the directory is made inside the working directory
mkdtempSync_InWorkingDirectory(run) == <<"cypress-parallel_", Digits[run + 1]>>

\* mkdtempSync(path.join(tmpRoot, "cypress-parallel_")): a directory that did
\* not exist before, so a new one in every invocation
mkdtempSync(run) == TMP_ROOT \o <<"/", "cypress-parallel_", Digits[run + 1]>>

jsConfigPath(run) == PathJoin(mkdtempSync(run), CONFIG_JS)

\* mutant: the transpiled text is written before the diagnostics are looked at
transpileTypescriptConfig_effects_WriteFirst(content, run) ==
  <<Effect("mkdtempSync", mkdtempSync(run)),
    Effect("writeFileSync", jsConfigPath(run))>>

\* the calls of transpileTypescriptConfig that create something
transpileTypescriptConfig_effects(content, run) ==
  <<Effect("mkdtempSync", mkdtempSync(run))>>
  \o (IF content.diagnostics THEN <<>>
      ELSE <<Effect("writeFileSync", jsConfigPath(run))>>)

\* the path loadConfig hands on to processConfig, i.e. to require()
RequiredPath(adapter, configFilePath, run) ==
  IF adapter = "TS" THEN jsConfigPath(run) ELSE configFilePath

loadConfig_effects(adapter, configFilePath, content, run) ==
  IF ~configFilePath.ok \/ configFilePath.val = NoPath \/ adapter = "JSON"
  THEN <<>>
  ELSE IF adapter = "JS" THEN <<Effect("require", configFilePath.val)>>
  ELSE transpileTypescriptConfig_effects(content, run)
       \o (IF content.diagnostics THEN <<>>
           ELSE <<Effect("require", jsConfigPath(run))>>)

\* the entries of the module cache for a path
Cached(cache, path) == {m \in cache : m.path = path}

\* require(path): the module text whose exports the call returns: a module
\* loaded before under the same path is not read again
Require(cache, path, content) ==
  IF Cached(cache, path) = {} THEN content
  ELSE (CHOOSE m \in Cached(cache, path) : TRUE).module

\* the module cache after require(path); a module that threw is not kept
RequireCacheAfter(cache, path, content) ==
  IF Cached(cache, path) # {} \/ content.loadThrows THEN cache
  ELSE cache \cup {[path |-> path, module |-> content]}

\* the text the adapter's loadConfig works on: what readFileSync returns
\* for cypress.json, what require() evaluates for a script
LoadedText(adapter, cache, path, content) ==
  IF adapter = "JSON" THEN content ELSE Require(cache, path, content)

CypressJS_loadConfig(content, tree, wd, order) ==
  LET load(configFilePath) ==
        IF ~configFilePath.ok THEN configFilePath
        ELSE IF configFilePath.val = NoPath
        THEN Throw("Error: no supported config file found.")
        ELSE processConfig(content)
  IN  load(getConfigFile("JS", tree, wd, order))

\* transpileTypescriptConfig throws on diagnostics, before anything is written
transpileTypescriptConfig(content) ==
  IF content.diagnostics
  THEN Throw("Error: Failed to transpile Cypress typescript config")
  ELSE Ok(CONFIG_JS)

CypressTS_loadConfig(content, tree, wd, order) ==
  LET process(jsConfigFilePath) ==
        IF ~jsConfigFilePath.ok THEN jsConfigFilePath
        ELSE processConfig(content)
      load(configFilePath) ==
        IF ~configFilePath.ok THEN configFilePath
        ELSE IF configFilePath.val = NoPath
        THEN Throw("Error: no supported config file found.")
        ELSE process(transpileTypescriptConfig(content))
  IN  load(getConfigFile("TS", tree, wd, order))

\* the try block of CypressConfigParser.parseTests, given the loadConfig result
Cypress_tryParseTests(config, tree, wd, order) ==
  IF ~config.ok THEN config
  ELSE
    LET both(integrationTests, componentTests) ==
          IF ~integrationTests.ok THEN integrationTests
          ELSE IF ~componentTests.ok THEN componentTests
          ELSE Ok(TestFiles(integrationTests.val, TRUE, componentTests.val))
    IN  both(parseTestOfType(tree, wd, order, Str(<<>>),
                             config.val.e2e.specPattern,
                             config.val.e2e.excludeSpecPattern),
             parseTestOfType(tree, wd, order, Str(<<>>),
                             config.val.component.specPattern,
                             config.val.component.excludeSpecPattern))

Cypress_parseTests(config, tree, wd, order) ==
  CatchAll(Cypress_tryParseTests(config, tree, wd, order))

(***************************************************************************)
(* The contents the selected adapter may read, its loadConfig and its      *)
(* parseTests                                                              *)
(***************************************************************************)
ContentsOf(adapter) ==
  CASE adapter = "JSON" -> LegacyContents
    [] adapter = "JS"   -> {c \in ModernContents : ~c.diagnostics}
    [] adapter = "TS"   -> ModernContents

loadConfig(adapter, content, tree, wd, order) ==
  CASE adapter = "JSON" -> Cypress9_loadConfig(content, tree, wd, order)
    [] adapter = "JS"   -> CypressJS_loadConfig(content, tree, wd, order)
    [] adapter = "TS"   -> CypressTS_loadConfig(content, tree, wd, order)

\* the result of parser.parseTests(): TestFiles, or an exception it lets out
parseTests(adapter, config, tree, wd, order) ==
  IF adapter = "JSON" THEN Cypress9_parseTests(config, tree, wd, order)
  ELSE Cypress_parseTests(config, tree, wd, order)

(***************************************************************************)
(* The calls of parseTestOfType that parseTests makes: one per rule        *)
(***************************************************************************)
Rule(category, testFolder, specPattern, excludeSpecPattern) ==
  [category |-> category, testFolder |-> testFolder,
   specPattern |-> specPattern, excludeSpecPattern |-> excludeSpecPattern]

\* mutant: the component rule is evaluated without ignoreTestFiles
Cypress9_rules_ComponentNoIgnore(config) ==
  <<Rule("integration", config.integrationFolder, config.testFiles,
         config.ignoreTestFiles)>>
  \o (IF Truthy(config.componentFolder)
      THEN <<Rule("component", config.componentFolder, config.testFiles,
                  Undefined)>>
      ELSE <<>>)

\* Cypress9ConfigParser.parseTests: integration, then component if
\* config.componentFolder is truthy
Cypress9_rules(config) ==
  <<Rule("integration", config.integrationFolder, config.testFiles,
         config.ignoreTestFiles)>>
  \o (IF Truthy(config.componentFolder)
      THEN <<Rule("component", config.componentFolder, config.testFiles,
                  config.ignoreTestFiles)>>
      ELSE <<>>)

\* mutant: the component rule is evaluated before the e2e rule
Cypress_rules_ComponentFirst(config) ==
  <<Rule("component", Str(<<>>), config.component.specPattern,
         config.component.excludeSpecPattern),
    Rule("integration", Str(<<>>), config.e2e.specPattern,
         config.e2e.excludeSpecPattern)>>

\* CypressConfigParser.parseTests: e2e, then component, both rooted at ""
Cypress_rules(config) ==
  <<Rule("integration", Str(<<>>), config.e2e.specPattern,
         config.e2e.excludeSpecPattern),
    Rule("component", Str(<<>>), config.component.specPattern,
         config.component.excludeSpecPattern)>>

\* the rules are evaluated one after the other; an exception ends the try
\* block, the rules after it are not evaluated
RECURSIVE EvaluateRules(_, _, _, _)
EvaluateRules(rules, tree, wd, order) ==
  IF rules = <<>> THEN <<>>
  ELSE LET logged(result) ==
             <<[rule |-> Head(rules), result |-> result]>>
             \o (IF result.ok THEN EvaluateRules(Tail(rules), tree, wd, order)
                 ELSE <<>>)
       IN  logged(parseTestOfType(tree, wd, order, Head(rules).testFolder,
                                  Head(rules).specPattern,
                                  Head(rules).excludeSpecPattern))

\* the parseTestOfType calls of one parseTests call, with their results
RuleLog(adapter, config, tree, wd, order) ==
  IF ~config.ok THEN <<>>
  ELSE IF adapter = "JSON"
  THEN EvaluateRules(Cypress9_rules(config.val), tree, wd, order)
  ELSE EvaluateRules(Cypress_rules(config.val), tree, wd, order)

\* the names under which the calls of a log are recorded
CallNames(log) == [i \in 1..Len(log) |-> log[i].rule.category]

(***************************************************************************)
(* parse()                                                                 *)
(***************************************************************************)
NO_CONFIG_MESSAGE == "No supported Cypress config file found."
NO_TESTS_MESSAGE == "No tests found"
ACTION_FAILED_PREFIX == "Action failed with error: "

\* a setFailed message: a literal text followed by the text of an exception
Message(text, detail) == [text |-> text, detail |-> detail]

\* count-runners texts of the runs of parse()
ParseCountTexts ==
  { <<>>, <<"a", "b", "c">>, <<"0">>, <<"-", "1">>, <<"2">>, InfinityWord }

Idle ==
  /\ pc = "idle" /\ parser = "none" /\ created = <<>> /\ calls = <<>>
  /\ loaded = Throw("not loaded") /\ testFiles = AllEmptyTestFiles
  /\ outputs = <<>> /\ failures = <<>>
  /\ fs = {} /\ wdKind = "dir" /\ readdirOrder = EntryNames /\ countInput = <<>>

GIdle == gCount = <<>> /\ gTests = <<>> /\ gResult = <<>> /\ gpc = "idle"

\* the content of a config file that has not been read
NoContent == [unread |-> TRUE]

HIdle ==
  /\ hTree = {} /\ hCwd = <<>> /\ hWorkingDirectory = <<>>
  /\ hOrder = EntryNames /\ hParser = Throw("not selected")
  /\ hContent = NoContent /\ hConfig = Throw("not loaded")
  /\ hLog = <<>> /\ hTests = Throw("not parsed") /\ hpc = "idle"
  /\ hFollowSymbolicLinks = FALSE /\ hEffects = <<>>
  /\ hRequireCache = {} /\ hRuns = 0

Init ==
  /\ wdKind \in {"dir", "missing", "file"}
  /\ fs \in SUBSET (ConfigFiles \cup TestFilePool)
  /\ wdKind # "dir" => fs = {}
  /\ readdirOrder \in {EntryNames, Reverse(EntryNames)}
  /\ countInput \in ParseCountTexts
  /\ pc = "parserFactory"
  /\ parser = "none"
  /\ created = <<>>
  /\ calls = <<>>
  /\ loaded = Throw("not loaded")
  /\ testFiles = AllEmptyTestFiles
  /\ outputs = <<>>
  /\ failures = <<>>
  /\ GIdle
  /\ HIdle

\* const parser = await parserFactory(config); if (!parser) { setFailed; return }
\* an exception of a lookup reaches the catch clause of parse()
ParserFactory ==
  /\ pc = "parserFactory"
  /\ \E made \in {parserFactory(fs, wdKind, readdirOrder)} :
         IF ~made.ok
         THEN /\ failures' = Append(failures, Message(ACTION_FAILED_PREFIX, made.err))
              /\ pc' = "done"
              /\ UNCHANGED <<parser, created>>
         ELSE IF made.val = "none"
         THEN /\ failures' = Append(failures, Message(NO_CONFIG_MESSAGE, ""))
              /\ pc' = "done"
              /\ UNCHANGED <<parser, created>>
         ELSE /\ parser' = made.val
              /\ created' = Append(created, made.val)
              /\ pc' = "parseTests"
              /\ UNCHANGED failures
  /\ UNCHANGED <<fs, wdKind, readdirOrder, countInput, calls, loaded, testFiles,
                 outputs, gvars, hvars>>

\* const {integrationTests, componentTests} = await parser.parseTests();
\* an exception parseTests lets out reaches the catch clause of parse()
ParseTests ==
  /\ pc = "parseTests"
  /\ \E content \in ContentsOf(parser) :
       \E config \in {loadConfig(parser, content, fs, wdKind, readdirOrder)} :
         \E parsed \in {parseTests(parser, config, fs, wdKind, readdirOrder)} :
           /\ loaded' = config
           /\ \E log \in {RuleLog(parser, config, fs, wdKind, readdirOrder)} :
                calls' = Append(calls, "parseTests") \o CallNames(log)
           /\ IF parsed.ok
              THEN /\ testFiles' = parsed.val
                   /\ pc' = "checkTests"
                   /\ UNCHANGED failures
              ELSE /\ failures' =
                        Append(failures, Message(ACTION_FAILED_PREFIX, parsed.err))
                   /\ pc' = "done"
                   /\ UNCHANGED testFiles
  /\ UNCHANGED <<fs, wdKind, readdirOrder, countInput, parser, created, outputs,
                 gvars, hvars>>

\* mutant: only integrationTests is tested for emptiness
CheckTests_IntegrationOnly ==
  /\ pc = "checkTests"
  /\ IF Len(testFiles.integrationTests) = 0
     THEN /\ failures' = Append(failures, Message(NO_TESTS_MESSAGE, ""))
          /\ pc' = "done"
     ELSE /\ pc' = "setIntegrationTests"
          /\ UNCHANGED failures
  /\ UNCHANGED <<fs, wdKind, readdirOrder, countInput, parser, created, calls,
                 loaded, testFiles, outputs, gvars, hvars>>

\* mutant: the return after setFailed("No tests found") is missing
CheckTests_NoReturn ==
  /\ pc = "checkTests"
  /\ IF /\ Len(testFiles.integrationTests) = 0
        /\ (~testFiles.hasComponentTests \/ Len(testFiles.componentTests) = 0)
     THEN failures' = Append(failures, Message(NO_TESTS_MESSAGE, ""))
     ELSE UNCHANGED failures
  /\ pc' = "setIntegrationTests"
  /\ UNCHANGED <<fs, wdKind, readdirOrder, countInput, parser, created, calls,
                 loaded, testFiles, outputs, gvars, hvars>>

\* if both are empty { setFailed("No tests found"); return }
CheckTests ==
  /\ pc = "checkTests"
  /\ IF /\ Len(testFiles.integrationTests) = 0
        /\ (~testFiles.hasComponentTests \/ Len(testFiles.componentTests) = 0)
     THEN /\ failures' = Append(failures, Message(NO_TESTS_MESSAGE, ""))
          /\ pc' = "done"
     ELSE /\ pc' = "setIntegrationTests"
          /\ UNCHANGED failures
  /\ UNCHANGED <<fs, wdKind, readdirOrder, countInput, parser, created, calls,
                 loaded, testFiles, outputs, gvars, hvars>>

Output(name, value) == [name |-> name, value |-> value]

\* setOutput("integration-tests", createTestGroups(countRunners, integrationTests))
SetIntegrationTests ==
  /\ pc = "setIntegrationTests"
  /\ outputs' = Append(outputs,
       Output("integration-tests",
              createTestGroups(Number(countInput), testFiles.integrationTests)))
  /\ pc' = IF testFiles.hasComponentTests THEN "setComponentTests" ELSE "done"
  /\ UNCHANGED <<fs, wdKind, readdirOrder, countInput, parser, created, calls,
                 loaded, testFiles, failures, gvars, hvars>>

\* if (componentTests) setOutput("component-tests", createTestGroups(...))
SetComponentTests ==
  /\ pc = "setComponentTests"
  /\ outputs' = Append(outputs,
       Output("component-tests",
              createTestGroups(Number(countInput), testFiles.componentTests)))
  /\ pc' = "done"
  /\ UNCHANGED <<fs, wdKind, readdirOrder, countInput, parser, created, calls,
                 loaded, testFiles, failures, gvars, hvars>>

Next ==
  \/ ParserFactory
  \/ ParseTests
  \/ CheckTests
  \/ SetIntegrationTests
  \/ SetComponentTests

Spec == Init /\ [][Next]_vars

(***************************************************************************)
(* parse() while the tree changes: parserFactory looks the config file up, *)
(* loadConfig looks it up again, and a config file may be created or       *)
(* removed in between                                                      *)
(***************************************************************************)
RaceInit ==
  /\ wdKind = "dir"
  /\ fs \in {configs \cup TestFilePool : configs \in SUBSET ConfigFiles}
  /\ readdirOrder = EntryNames
  /\ countInput \in {<<>>, <<"2">>}
  /\ pc = "parserFactory"
  /\ parser = "none"
  /\ created = <<>>
  /\ calls = <<>>
  /\ loaded = Throw("not loaded")
  /\ testFiles = AllEmptyTestFiles
  /\ outputs = <<>>
  /\ failures = <<>>
  /\ GIdle
  /\ HIdle

\* something else creates or removes a config file after parserFactory
\* returned and before parseTests runs
FsChange ==
  /\ pc = "parseTests"
  /\ \E f \in ConfigFiles :
       fs' = IF f \in fs THEN fs \ {f} ELSE fs \cup {f}
  /\ UNCHANGED <<wdKind, readdirOrder, countInput, pc, parser, created, calls,
                 loaded, testFiles, outputs, failures, gvars, hvars>>

RaceNext ==
  \/ ParserFactory
  \/ FsChange
  \/ ParseTests
  \/ CheckTests
  \/ SetIntegrationTests
  \/ SetComponentTests

SpecRace == RaceInit /\ [][RaceNext]_vars

(***************************************************************************)
(* Harness for createTestGroups: the count-runners text and the tests      *)
(* array are drawn from bounded sets, the action applies the function to   *)
(* Number(text) exactly as parse() does.                                   *)
(***************************************************************************)
RECURSIVE DecimalText(_)
DecimalText(n) ==
  IF n < 10 THEN <<Digits[n + 1]>>
  ELSE DecimalText(n \div 10) \o <<Digits[(n % 10) + 1]>>

CountTexts ==
  {DecimalText(n) : n \in 0..MaxCount}
  \cup { <<>>, <<"a", "b", "c">>, <<"-", "1">>, <<"-", "0">>, <<"+", "3">>,
         <<" ", "2", " ">>, <<"2", ".", "0">>, <<"1", ".", "5">>,
         <<"0", ".", "5">>, <<"2", ".", "5">>, <<".", "5">>, <<"1", ".">>,
         <<".">>, <<"1", ".", "2", ".", "3">>, <<"-">>,
         InfinityWord, <<"-">> \o InfinityWord }

\* three path names; the last one contains a comma
PathPool == { <<"a", ".", "ts">>, <<"b", ".", "ts">>, <<"c", ",", "d">> }

GInit ==
  /\ Idle
  /\ HIdle
  /\ gCount \in CountTexts
  /\ gTests \in SeqsUpTo(PathPool, MaxTests)
  /\ gResult = <<>>
  /\ gpc = "call"

CallCreateTestGroups ==
  /\ gpc = "call"
  /\ gResult' = createTestGroups(Number(gCount), gTests)
  /\ gpc' = "returned"
  /\ UNCHANGED <<gCount, gTests, pvars, hvars>>

GNext == CallCreateTestGroups

SpecGroups == GInit /\ [][GNext]_vars


(***************************************************************************)
(* Properties of createTestGroups (checked under SpecGroups)               *)
(***************************************************************************)
Returned == gpc = "returned"

GroupCount == Number(gCount)

\* ceil(a / b) for naturals a and b > 0
CeilDiv(a, b) == (a + b - 1) \div b

\* the entries of a joined group: the pieces between its "," tokens
RECURSIVE SplitOnComma(_)
SplitOnComma(text) ==
  IF \A i \in 1..Len(text) : text[i] # "," THEN <<text>>
  ELSE LET p == CHOOSE i \in 1..Len(text) :
                  text[i] = "," /\ \A j \in 1..(i - 1) : text[j] # ","
       IN  <<SubSeq(text, 1, p - 1)>> \o SplitOnComma(SubSeq(text, p + 1, Len(text)))

RECURSIVE Flatten(_)
Flatten(ss) == IF ss = <<>> THEN <<>> ELSE Head(ss) \o Flatten(Tail(ss))

HasNoComma(path) == \A i \in 1..Len(path) : path[i] # ","

\* C6: for a positive integer count, group i (0-based) is the comma-join of
\* tests[i*chunkSize .. min((i+1)*chunkSize, len)-1] with
\* chunkSize = ceil(len/count); every group but the last holds chunkSize
\* entries and the last holds between 1 and chunkSize.
C6_ContiguousChunks ==
  (Returned /\ IsPositiveInteger(GroupCount)) =>
    LET count     == IntegerValue(GroupCount)
        len       == Len(gTests)
        chunkSize == CeilDiv(len, count)
        chunk(i)  == SubSeq(gTests, i * chunkSize + 1, Min((i + 1) * chunkSize, len))
    IN  /\ \A i \in 0..(Len(gResult) - 1) :
             /\ gResult[i + 1] = Join(chunk(i))
             /\ i + 1 < Len(gResult) => Len(chunk(i)) = chunkSize
             /\ i + 1 = Len(gResult) => Len(chunk(i)) \in 1..chunkSize
        /\ len > 0 => Len(gResult) * chunkSize >= len

\* five paths and count 2 have been grouped into a chunk of 3 and a chunk of 2
C6_Witness ==
  /\ Returned
  /\ GroupCount = Fin(2, 1)
  /\ Len(gTests) = 5
  /\ Len(gResult) = 2
  /\ gResult[1] = Join(SubSeq(gTests, 1, 3))
  /\ gResult[2] = Join(SubSeq(gTests, 4, 5))

\* C7: for a positive integer count the number of groups never exceeds the
\* count and equals ceil(len/chunkSize), no group is empty, and an empty
\* tests array gives the empty array.
C7_GroupCountBounded ==
  (Returned /\ IsPositiveInteger(GroupCount)) =>
    LET count     == IntegerValue(GroupCount)
        len       == Len(gTests)
        chunkSize == CeilDiv(len, count)
    IN  /\ Len(gResult) <= count
        /\ len > 0 => Len(gResult) = CeilDiv(len, chunkSize)
        /\ \A i \in 1..Len(gResult) : gResult[i] # <<>>
        /\ len = 0 => gResult = <<>>

\* fewer groups than runners: 5 tests for 4 runners give 3 groups
C7_Witness ==
  /\ Returned
  /\ GroupCount = Fin(4, 1)
  /\ Len(gTests) = 5
  /\ Len(gResult) = 3

\* C9: for every count and every tests array whose entries hold no comma,
\* splitting each returned group on "," and concatenating the pieces in
\* group order gives back exactly the tests array.
C9_GroupingPreservesPaths ==
  (Returned /\ \A i \in 1..Len(gTests) : HasNoComma(gTests[i])) =>
    Flatten([i \in 1..Len(gResult) |-> SplitOnComma(gResult[i])]) = gTests


(***************************************************************************)
(* Properties of parse() (checked under Spec)                              *)
(***************************************************************************)
Done == pc = "done"

OutputSet(name) == \E i \in 1..Len(outputs) : outputs[i].name = name

OutputValue(name) ==
  outputs[CHOOSE i \in 1..Len(outputs) : outputs[i].name = name].value

NoConfigFailure == Message(NO_CONFIG_MESSAGE, "")

NoTestsFailure == Message(NO_TESTS_MESSAGE, "")

\* the working directory can be listed: it is a directory, or it is missing
\* and counts as empty (a regular file in its place makes readdirSync throw)
Listable == wdKind # "file"

\* the files of the tree that carry one of the adapter's config file names
Candidates(adapter) ==
  {f \in fs : Basename(f) \in Range(VALID_CONFIG_FILE_NAMES(adapter))}

\* the adapter finds its config file: exactly one candidate
Finds(adapter) == wdKind = "dir" /\ Cardinality(Candidates(adapter)) = 1

\* the try block of the selected adapter's parseTests threw
AdapterThrew ==
  /\ parser # "none"
  /\ calls # <<>>
  /\ ~(IF parser = "JSON"
       THEN Cypress9_tryParseTests(loaded, fs, wdKind, readdirOrder)
       ELSE Cypress_tryParseTests(loaded, fs, wdKind, readdirOrder)).ok

\* C1: when the working directory can be listed and none of the three
\* adapters finds its config file, parse() fails with exactly
\* "No supported Cypress config file found.", sets no output and never
\* invokes parseTests, whatever test files exist.
C1_NoConfigFails ==
  (pc # "parserFactory" /\ Listable /\ \A i \in 1..3 : ~Finds(Adapters[i])) =>
    /\ Done
    /\ failures = <<NoConfigFailure>>
    /\ outputs = <<>>
    /\ calls = <<>>
    /\ created = <<>>

\* test files on disk, no config file, and parse() has failed
C1_Witness ==
  /\ Done
  /\ {E2E_FILE, INT_FILE, COMP_FILE} \subseteq fs
  /\ fs \cap ConfigFiles = {}
  /\ failures = <<NoConfigFailure>>

\* C2: with an adapter selected, parse() fails with exactly "No tests found"
\* and sets no output if and only if integrationTests is empty and
\* componentTests is absent or empty; empty integrationTests with non-empty
\* componentTests succeeds and sets integration-tests to the empty array.
C2_NoTestsIffBothEmpty ==
  (Done /\ parser # "none") =>
    LET bothEmpty ==
          /\ Len(testFiles.integrationTests) = 0
          /\ ~testFiles.hasComponentTests \/ Len(testFiles.componentTests) = 0
    IN  /\ bothEmpty <=> (failures = <<NoTestsFailure>> /\ outputs = <<>>)
        /\ ~bothEmpty => failures = <<>>
        /\ (Len(testFiles.integrationTests) = 0 /\ ~bothEmpty) =>
             /\ OutputSet("integration-tests")
             /\ OutputValue("integration-tests") = <<>>

\* no integration test, one component test: success with integration-tests []
C2_Witness ==
  /\ Done
  /\ testFiles.integrationTests = <<>>
  /\ testFiles.hasComponentTests
  /\ testFiles.componentTests = <<COMP_FILE>>
  /\ failures = <<>>
  /\ outputs[1] = Output("integration-tests", <<>>)

\* C3: an invocation that has ended has either set integration-tests and
\* signalled no failure, or signalled exactly one failure, with one of the
\* three messages, and set no output; no state has both an output and a
\* failure.
C3_OneOutcome ==
  /\ ~(outputs # <<>> /\ failures # <<>>)
  /\ Len(failures) <= 1
  /\ \A i \in 1..Len(failures) :
       \/ failures[i] \in {NoConfigFailure, NoTestsFailure}
       \/ failures[i].text = ACTION_FAILED_PREFIX
  /\ Done =>
       \/ failures = <<>> /\ OutputSet("integration-tests")
       \/ Len(failures) = 1 /\ outputs = <<>>
  /\ pc \in {"parserFactory", "parseTests", "checkTests", "setIntegrationTests",
             "setComponentTests", "done"}

\* the run has ended with the wrapped failure of an unexpected exception
C3_Witness ==
  /\ Done
  /\ Len(failures) = 1
  /\ failures[1].text = ACTION_FAILED_PREFIX
  /\ outputs = <<>>

\* C4: the adapter used is the first of typed-script, plain-script, legacy
\* JSON whose config file is found; exactly one adapter is constructed; the
\* selection is the same with every lower-precedence config file removed.
C4_Precedence ==
  (pc # "parserFactory" /\ Listable) =>
    LET first == IF Finds("TS") THEN "TS"
                 ELSE IF Finds("JS") THEN "JS"
                 ELSE IF Finds("JSON") THEN "JSON"
                 ELSE "none"
        lower == CASE parser = "TS" -> Candidates("JS") \cup Candidates("JSON")
                   [] parser = "JS" -> Candidates("JSON")
                   [] OTHER -> {}
    IN  /\ parser = first
        /\ created = IF first = "none" THEN <<>> ELSE <<first>>
        /\ parserFactory(fs \ lower, wdKind, readdirOrder) = Ok(parser)

\* all three schemas have a config file and the typed-script adapter is used
C4_Witness ==
  /\ {CONFIG_TS, CONFIG_JS, CONFIG_JSON} \subseteq fs
  /\ CONFIG_MJS \notin fs
  /\ NESTED_JSON \notin fs
  /\ parser = "TS"
  /\ created = <<"TS">>
  /\ Done

\* C5: on a successful run component-tests is set exactly if the resolved
\* configuration declares a component category: with the legacy schema and
\* no componentFolder it is never set, with the modern schema it is always
\* set, possibly to [].
C5_ComponentOutputIffDeclared ==
  /\ (parser = "JSON" /\ calls # <<>> /\ loaded.ok
        /\ ~Truthy(loaded.val.componentFolder)) => ~OutputSet("component-tests")
  /\ (Done /\ failures = <<>>) =>
       /\ loaded.ok
       /\ parser = "JSON" =>
            (OutputSet("component-tests") <=> Truthy(loaded.val.componentFolder))
       /\ parser \in {"TS", "JS"} => OutputSet("component-tests")

\* a successful modern-schema run whose component-tests output is []
C5_Witness ==
  /\ Done
  /\ failures = <<>>
  /\ parser \in {"TS", "JS"}
  /\ outputs[1].value # <<>>
  /\ outputs[2] = Output("component-tests", <<>>)

\* C8: with count-runners unset, non-numeric, zero or negative each output
\* array is the discovered path sequence of its category, entry by entry.
C8_InvalidCountKeepsPaths ==
  (countInput \in { <<>>, <<"a", "b", "c">>, <<"0">>, <<"-", "1">> }) =>
    \A i \in 1..Len(outputs) :
      /\ outputs[i].name = "integration-tests" =>
           outputs[i].value = testFiles.integrationTests
      /\ outputs[i].name = "component-tests" =>
           outputs[i].value = testFiles.componentTests

\* count-runners unset: several integration tests are put out unjoined, next
\* to the component tests
C8_Witness ==
  /\ Done
  /\ countInput = <<>>
  /\ Len(outputs) = 2
  /\ Len(outputs[1].value) >= 2
  /\ outputs[1].value = testFiles.integrationTests
  /\ outputs[2].value = testFiles.componentTests

\* C10: an exception raised in the selected adapter while it loads or
\* evaluates its configuration is replaced by an all-empty TestFiles; the run
\* ends with the failure "No tests found", never with an "Action failed with
\* error: " failure and never with an output.
C10_AdapterExceptionsAbsorbed ==
  AdapterThrew =>
    /\ \A i \in 1..Len(failures) : failures[i].text # ACTION_FAILED_PREFIX
    /\ outputs = <<>>
    /\ pc \in {"checkTests", "done"}
    /\ testFiles = AllEmptyTestFiles
    /\ Done => failures = <<NoTestsFailure>>

\* test files exist, loadConfig threw, and the run ended with "No tests found"
C10_Witness ==
  /\ Done
  /\ AdapterThrew
  /\ ~loaded.ok
  /\ INT_FILE \in fs
  /\ failures = <<NoTestsFailure>>

(***************************************************************************)
(* Further properties of createTestGroups (checked under SpecGroups)       *)
(***************************************************************************)
\* C19: for every count that is no positive integer (NaN, zero, negative, or
\* with a fractional part) createTestGroups returns the tests array
\* unchanged: one entry per path, nothing joined.
C19_NonIntegerCountKeepsPaths ==
  (Returned /\ ~IsPositiveInteger(GroupCount)) => gResult = gTests

\* the number of paths joined into one group
GroupSize(group) == Len(SplitOnComma(group))

\* C20: for a positive integer count the numbers of paths of any two groups
\* of one result differ by at most one.
C20_GroupsBalanced ==
  (Returned /\ IsPositiveInteger(GroupCount)
     /\ \A i \in 1..Len(gTests) : HasNoComma(gTests[i])) =>
    \A i, j \in 1..Len(gResult) :
      GroupSize(gResult[i]) - GroupSize(gResult[j]) <= 1

(***************************************************************************)
(* Harness for the discovery of one run: parserFactory, then the selected  *)
(* adapter's loadConfig and parseTests, over a file tree that also holds   *)
(* files outside the working directory, for both ways of naming the        *)
(* working directory, and over more configurations than parse() is run on. *)
(***************************************************************************)
PROJECT == <<"project">>

\* workingDirectory ? workingDirectory : process.cwd(); the file system
\* resolves a relative working directory against the current directory
getWorkingDirectory(workingDirectory, cwd) ==
  IF workingDirectory # <<>> THEN PathJoin(cwd, workingDirectory) ELSE cwd

\* existsSync / readdirSync of a directory given relative to the base
DirKind(tree, dir) ==
  IF dir = <<>> THEN "dir"
  ELSE IF dir \in tree THEN "file"
  ELSE IF \E f \in tree : IsPrefix(dir \o <<"/">>, f) THEN "dir"
  ELSE "missing"

\* the files as they are addressed from directory dir (the base or a
\* directory right below it): a file outside dir is reached through ".."
RelativeTo(tree, dir) ==
  IF dir = <<>> THEN tree
  ELSE {IF IsPrefix(dir \o <<"/">>, f) THEN SubSeq(f, Len(dir) + 2, Len(f))
        ELSE <<"..", "/">> \o f : f \in tree}

WorkingTree(tree, dir) ==
  IF DirKind(tree, dir) = "dir" THEN RelativeTo(tree, dir) ELSE {}

OTHER_FOLDER == <<"other">>
OUTER_FILE == <<"other", "/", "t2", ".", "ts">>
CYPRESS_FOLDER == <<"cypress">>
SRC_FOLDER == <<"src">>

\* the files a tree is made of, relative to the base directory
HFilePool ==
  {PathJoin(PROJECT, f) :
     f \in {CONFIG_JSON, CONFIG_JS, CONFIG_TS, E2E_FILE, INT_FILE, COMP_FILE}}
  \cup {CONFIG_JSON, OUTER_FILE}

\* the text of cypress.json
HLegacyContents ==
  {[malformed |-> TRUE, integrationFolder |-> Undefined, componentFolder |-> Undefined,
    testFiles |-> Undefined, ignoreTestFiles |-> Undefined]}
  \cup
  [malformed : {FALSE},
   integrationFolder : {Undefined, Str(CYPRESS_FOLDER),
                        Str(PathJoin(<<"..">>, OTHER_FOLDER))},
   componentFolder : {Undefined, Str(SRC_FOLDER), Str(<<>>)},
   testFiles : {Undefined, Str(P_COMPONENT), Array(<<P_TS, P_SRC>>), Array(<<>>)},
   ignoreTestFiles : {Undefined, Str(P_TS), Array(<<P_COMPONENT>>)}]

HE2ESections ==
  {NoSection,
   Section(TRUE, Str(P_TS), Undefined),
   Section(TRUE, Undefined, Str(P_SRC)),
   Section(TRUE, Array(<<P_SRC, P_E2E>>), Array(<<>>)),
   Section(TRUE, Array(<<>>), Undefined)}

HComponentSections ==
  {NoSection,
   Section(TRUE, Str(P_TS), Undefined),
   Section(TRUE, Undefined, Array(<<P_SRC>>)),
   Section(TRUE, Array(<<P_COMPONENT, P_ALL>>), Str(P_E2E))}

\* the config script
HModernContents ==
  {ModernScript(TRUE, FALSE, FALSE, NoSection, NoSection),
   ModernScript(FALSE, TRUE, FALSE, NoSection, NoSection)}
  \cup
  {ModernScript(FALSE, FALSE, d, e, c) :
     d \in BOOLEAN, e \in HE2ESections, c \in HComponentSections}

HContentsOf(adapter) ==
  CASE adapter = "JSON" -> HLegacyContents
    [] adapter = "JS"   -> {c \in HModernContents : ~c.diagnostics}
    [] adapter = "TS"   -> HModernContents

\* the working directory of the run and the tree as seen from it
HWorkingDir == getWorkingDirectory(hWorkingDirectory, hCwd)

HKind == DirKind(hTree, HWorkingDir)

HFiles == WorkingTree(hTree, HWorkingDir)

HInit ==
  /\ Idle
  /\ GIdle
  /\ hTree \in SUBSET HFilePool
  /\ hCwd \in {<<>>, PROJECT}
  /\ hCwd = PROJECT => DirKind(hTree, PROJECT) = "dir"
  /\ hWorkingDirectory \in {<<>>, PROJECT}
  /\ hOrder \in {EntryNames, Reverse(EntryNames)}
  /\ hParser = Throw("not selected")
  /\ hContent = NoContent
  /\ hConfig = Throw("not loaded")
  /\ hLog = <<>>
  /\ hTests = Throw("not parsed")
  /\ hpc = "select"
  /\ hFollowSymbolicLinks = FALSE
  /\ hEffects = <<>>
  /\ hRequireCache = {}
  /\ hRuns = 1

\* const parser = await parserFactory(config)
HParserFactory ==
  /\ hpc = "select"
  /\ \E made \in {parserFactory(HFiles, HKind, hOrder)} :
       /\ hParser' = made
       /\ hpc' = IF made.ok /\ made.val # "none" THEN "parse" ELSE "done"
  /\ UNCHANGED <<hTree, hCwd, hWorkingDirectory, hOrder, hContent, hConfig,
                 hLog, hTests, hFollowSymbolicLinks, hEffects, hRequireCache,
                 hRuns, pvars, gvars>>

\* parser.parseTests(): loadConfig, then one parseTestOfType call per rule
HParseTests ==
  /\ hpc = "parse"
  /\ \E content \in HContentsOf(hParser.val) :
     \E configFilePath \in {getConfigFile(hParser.val, HFiles, HKind, hOrder)} :
     \E path \in {RequiredPath(hParser.val, configFilePath.val, hRuns)} :
     \E text \in {LoadedText(hParser.val, hRequireCache, path, content)} :
     \E config \in {loadConfig(hParser.val, text, HFiles, HKind, hOrder)} :
     \E effects \in {loadConfig_effects(hParser.val, configFilePath, content, hRuns)} :
         /\ hContent' = content
         /\ hConfig' = config
         /\ hLog' = RuleLog(hParser.val, config, HFiles, HKind, hOrder)
         /\ hTests' = parseTests(hParser.val, config, HFiles, HKind, hOrder)
         /\ hEffects' = effects
         /\ hRequireCache' =
              IF \E i \in 1..Len(effects) : effects[i].op = "require"
              THEN RequireCacheAfter(hRequireCache, path, content)
              ELSE hRequireCache
  /\ hpc' = "parsed"
  /\ UNCHANGED <<hTree, hCwd, hWorkingDirectory, hOrder, hParser,
                 hFollowSymbolicLinks, hRuns, pvars, gvars>>

HNext ==
  \/ HParserFactory
  \/ HParseTests

SpecDiscover == HInit /\ [][HNext]_vars

(***************************************************************************)
(* parse() invoked more than once in one process: the module cache of      *)
(* require() outlives an invocation, the config file may change in between *)
(***************************************************************************)
RInit ==
  /\ Idle
  /\ GIdle
  /\ hTree \in {{c, E2E_FILE} : c \in {CONFIG_JSON, CONFIG_JS, CONFIG_TS}}
  /\ hCwd = <<>>
  /\ hWorkingDirectory = <<>>
  /\ hOrder = EntryNames
  /\ hParser = Throw("not selected")
  /\ hContent = NoContent
  /\ hConfig = Throw("not loaded")
  /\ hLog = <<>>
  /\ hTests = Throw("not parsed")
  /\ hpc = "select"
  /\ hFollowSymbolicLinks = FALSE
  /\ hEffects = <<>>
  /\ hRequireCache = {}
  /\ hRuns = 1

\* parse() returns and is invoked again
HAgain ==
  /\ hpc = "parsed"
  /\ hRuns < MaxRuns
  /\ hRuns' = hRuns + 1
  /\ hpc' = "select"
  /\ hParser' = Throw("not selected")
  /\ hContent' = NoContent
  /\ hConfig' = Throw("not loaded")
  /\ hLog' = <<>>
  /\ hTests' = Throw("not parsed")
  /\ hEffects' = <<>>
  /\ UNCHANGED <<hTree, hCwd, hWorkingDirectory, hOrder, hFollowSymbolicLinks,
                 hRequireCache, pvars, gvars>>

RNext ==
  \/ HParserFactory
  \/ HParseTests
  \/ HAgain

SpecRuns == RInit /\ [][RNext]_vars

(***************************************************************************)
(* Trees with symbolic links, with and without the follow-symbolic-links   *)
(* input                                                                   *)
(***************************************************************************)
LInit ==
  /\ Idle
  /\ GIdle
  /\ hTree \in {{c} \cup links :
                  c \in {CONFIG_JSON, CONFIG_JS, CONFIG_TS},
                  links \in SUBSET {E2E_FILE, LINK_FILE, LINKED_FILE}}
  /\ hCwd = <<>>
  /\ hWorkingDirectory = <<>>
  /\ hOrder \in {EntryNames, Reverse(EntryNames)}
  /\ hParser = Throw("not selected")
  /\ hContent = NoContent
  /\ hConfig = Throw("not loaded")
  /\ hLog = <<>>
  /\ hTests = Throw("not parsed")
  /\ hpc = "select"
  /\ hFollowSymbolicLinks \in BOOLEAN
  /\ hEffects = <<>>
  /\ hRequireCache = {}
  /\ hRuns = 1

SpecLinks == LInit /\ [][HNext]_vars

(***************************************************************************)
(* Properties of the discovery (checked under SpecDiscover)                *)
(***************************************************************************)
Parsed == hpc = "parsed"

Modern == Parsed /\ hParser.val \in {"TS", "JS"}

Legacy == Parsed /\ hParser.val = "JSON"

\* the files of the working directory, named as listFiles names them
HListed == Below(HFiles, <<>>)

MatchesSome(f, patterns) ==
  \E i \in 1..Len(patterns) : minimatch(f, patterns[i])

\* C11: with the modern schema a file that matches one of the resolved e2e
\* include patterns is never among the component tests, so no path is in
\* both integrationTests and componentTests.
C11_E2ENotComponent ==
  (Modern /\ hConfig.ok /\ hTests.ok) =>
    /\ \A f \in HListed :
         MatchesSome(f, hConfig.val.e2e.specPattern.v) =>
           f \notin Range(hTests.val.componentTests)
    /\ Range(hTests.val.integrationTests) \cap Range(hTests.val.componentTests) = {}

\* a file matching the e2e and the component include patterns is an
\* integration test only, next to a component test
C11_Witness ==
  /\ Modern /\ hConfig.ok /\ hTests.ok
  /\ MatchesSome(E2E_FILE, hConfig.val.e2e.specPattern.v)
  /\ MatchesSome(E2E_FILE, hConfig.val.component.specPattern.v)
  /\ E2E_FILE \in Range(hTests.val.integrationTests)
  /\ E2E_FILE \notin Range(hTests.val.componentTests)
  /\ COMP_FILE \in Range(hTests.val.componentTests)

\* the sub-field of a section of the user's configuration object is set
IsSet(section, field) == section.present /\ field.t # "undefined"

\* C12: in the modern schema each of the four sub-fields resolves on its own:
\* a sub-field left undefined takes its category's default, whether its
\* section is absent or present with only the other sub-field set; a
\* specPattern that is set is the list of the given patterns, an
\* excludeSpecPattern that is set is the list of the given patterns after the
\* fixed head of its category's exclude list.
C12_DefaultsPerSubField ==
  (Modern /\ ~hContent.diagnostics /\ ~hContent.loadThrows) =>
    LET e2e == hContent.e2e
        component == hContent.component
        e2eInclude == IF IsSet(e2e, e2e.specPattern)
                      THEN e2e.specPattern.v ELSE <<P_E2E>>
    IN  /\ hConfig.ok
        /\ hConfig.val.e2e.specPattern = Array(e2eInclude)
        /\ hConfig.val.e2e.excludeSpecPattern =
             Array(<<P_NODE_MODULES>>
                   \o (IF IsSet(e2e, e2e.excludeSpecPattern)
                       THEN e2e.excludeSpecPattern.v ELSE <<P_HOT_UPDATE>>))
        /\ hConfig.val.component.specPattern =
             Array(IF IsSet(component, component.specPattern)
                   THEN component.specPattern.v ELSE <<P_COMPONENT>>)
        /\ hConfig.val.component.excludeSpecPattern =
             Array(<<P_NODE_MODULES>> \o e2eInclude
                   \o (IF IsSet(component, component.excludeSpecPattern)
                       THEN component.excludeSpecPattern.v
                       ELSE <<P_SNAPSHOTS, P_IMAGE_SNAPSHOTS>>))

\* an e2e section that sets only excludeSpecPattern, as a single string: the
\* e2e include pattern is the default, the exclude list holds the string
C12_Witness ==
  /\ Modern
  /\ hContent.e2e.present
  /\ hContent.e2e.specPattern = Undefined
  /\ hContent.e2e.excludeSpecPattern = Str(P_SRC)
  /\ ~hContent.component.present
  /\ hConfig.ok
  /\ hConfig.val.e2e.specPattern = Array(<<P_E2E>>)
  /\ hConfig.val.e2e.excludeSpecPattern = Array(<<P_NODE_MODULES, P_SRC>>)
  /\ hConfig.val.component.specPattern = Array(<<P_COMPONENT>>)

\* cypress.json holds the empty object
EmptyLegacyConfig ==
  /\ hContent.integrationFolder = Undefined
  /\ hContent.componentFolder = Undefined
  /\ hContent.testFiles = Undefined
  /\ hContent.ignoreTestFiles = Undefined

\* C13: with the legacy schema the integration rule has the root folder
\* "cypress/integration" and the one include pattern "**/*.*" where
\* cypress.json sets no integrationFolder / testFiles, and the value of each
\* field that it sets; with an empty configuration object the integration
\* tests are the files below cypress/integration and no others.
C13_LegacyDefaults ==
  (Legacy /\ ~hContent.malformed) =>
    /\ hConfig.ok
    /\ hLog # <<>>
    /\ hLog[1].rule.category = "integration"
    /\ hLog[1].rule.testFolder =
         (IF hContent.integrationFolder = Undefined
          THEN Str(<<"cypress", "/", "integration">>)
          ELSE hContent.integrationFolder)
    /\ hLog[1].rule.specPattern =
         (IF hContent.testFiles = Undefined
          THEN Str(<<"**", "/", "*", ".", "*">>)
          ELSE hContent.testFiles)
    /\ hLog[1].result.ok => /\ hTests.ok
                            /\ hTests.val.integrationTests = hLog[1].result.val
    /\ EmptyLegacyConfig =>
         /\ hTests.ok
         /\ Range(hTests.val.integrationTests) =
              {f \in HListed : IsPrefix(<<"cypress", "/", "integration", "/">>, f)}

\* an empty cypress.json next to tests in three folders: only the one below
\* cypress/integration is an integration test
C13_Witness ==
  /\ Legacy /\ ~hContent.malformed
  /\ EmptyLegacyConfig
  /\ {E2E_FILE, INT_FILE, COMP_FILE} \subseteq HFiles
  /\ hTests.val.integrationTests = <<INT_FILE>>

\* C14: with the legacy schema the integration rule is evaluated first and
\* always, a component rule is evaluated only if componentFolder is set, and
\* the component rule has the testFiles and ignoreTestFiles of the
\* integration rule and componentFolder as its root folder.
C14_LegacyRulesShared ==
  (Legacy /\ hConfig.ok) =>
    /\ Len(hLog) \in 1..2
    /\ hLog[1].rule.category = "integration"
    /\ hLog[1].rule.excludeSpecPattern = hContent.ignoreTestFiles
    /\ hContent.componentFolder = Undefined => Len(hLog) = 1
    /\ Len(hLog) = 2 =>
         /\ hLog[2].rule.category = "component"
         /\ hLog[2].rule.testFolder = hContent.componentFolder
         /\ hLog[2].rule.specPattern = hLog[1].rule.specPattern
         /\ hLog[2].rule.excludeSpecPattern = hLog[1].rule.excludeSpecPattern
    /\ (\A i \in 1..Len(hLog) : hLog[i].result.ok) =>
         /\ hTests.ok
         /\ hTests.val.integrationTests = hLog[1].result.val
         /\ hTests.val.hasComponentTests <=> Len(hLog) = 2
         /\ Len(hLog) = 2 => hTests.val.componentTests = hLog[2].result.val

\* both rules evaluated with the same ignoreTestFiles: the integration rule
\* finds a test, the component rule drops the one file of its folder
C14_Witness ==
  /\ Legacy /\ hConfig.ok
  /\ Len(hLog) = 2
  /\ hLog[1].rule.excludeSpecPattern = Array(<<P_COMPONENT>>)
  /\ hLog[1].rule.testFolder # hLog[2].rule.testFolder
  /\ hLog[1].result.ok /\ hLog[1].result.val # <<>>
  /\ COMP_FILE \in HFiles
  /\ hLog[2].rule.testFolder = Str(SRC_FOLDER)
  /\ hLog[2].result = Ok(<<>>)

(***************************************************************************)
(* Further properties of parse() (checked under Spec)                      *)
(***************************************************************************)
\* C15: a schema's config file counts as present exactly if one candidate
\* for the schema is found; with no candidate or with several the locator
\* returns no path and raises nothing, the next schema in precedence is
\* tried, and with no schema left the run fails with
\* "No supported Cypress config file found.".
C15_AmbiguousIsAbsent ==
  (pc # "parserFactory" /\ Listable) =>
    /\ \A i \in 1..3 :
         /\ hasConfigFile(Adapters[i], fs, wdKind, readdirOrder)
              = Ok(Finds(Adapters[i]))
         /\ ~Finds(Adapters[i]) =>
              getConfigFile(Adapters[i], fs, wdKind, readdirOrder) = Ok(NoPath)
    /\ \A i \in 1..3 :
         parser = Adapters[i] <=>
           (Finds(Adapters[i]) /\ \A j \in 1..(i - 1) : ~Finds(Adapters[j]))
    /\ (\A i \in 1..3 : ~Finds(Adapters[i])) =>
         /\ parser = "none"
         /\ failures = <<NoConfigFailure>>

\* cypress.config.js and cypress.config.mjs both exist: the plain-script
\* schema counts as absent and the legacy adapter is selected
C15_Witness ==
  /\ pc # "parserFactory"
  /\ {CONFIG_JS, CONFIG_MJS, CONFIG_JSON} \subseteq fs
  /\ CONFIG_TS \notin fs
  /\ NESTED_JSON \notin fs
  /\ parser = "JSON"
  /\ created = <<"JSON">>

(***************************************************************************)
(* Further properties of the discovery (checked under SpecDiscover)        *)
(***************************************************************************)
\* C16: with a working-directory input the adapter selected and the
\* TestFiles returned are those of the same run over the tree without the
\* files outside the working directory; without the input the working
\* directory is the process's current directory.
C16_RootedAtWorkingDirectory ==
  /\ (hpc # "select" /\ hWorkingDirectory # <<>>) =>
       hParser = parserFactory(HListed, HKind, hOrder)
  /\ (Parsed /\ hWorkingDirectory # <<>>) =>
       hTests = parseTests(hParser.val,
                           loadConfig(hParser.val, hContent, HListed, HKind, hOrder),
                           HListed, HKind, hOrder)
  /\ hWorkingDirectory = <<>> => HWorkingDir = hCwd

(***************************************************************************)
(* Ordering within one run of parse() (checked under Spec)                 *)
(***************************************************************************)
\* C17: the component rule is evaluated only after the integration rule, the
\* integration-tests output is the first output set and component-tests the
\* second, and component-tests is never set without integration-tests.
C17_IntegrationFirst ==
  /\ calls \in { <<>>, <<"parseTests">>, <<"parseTests", "integration">>,
                 <<"parseTests", "integration", "component">> }
  /\ Len(outputs) <= 2
  /\ Len(outputs) >= 1 => outputs[1].name = "integration-tests"
  /\ Len(outputs) = 2 => outputs[2].name = "component-tests"
  /\ outputs # <<>> => "integration" \in Range(calls)

\* a legacy run with a component folder: both rules evaluated, both outputs
\* set, integration first
C17_Witness ==
  /\ Done
  /\ parser = "JSON"
  /\ calls = <<"parseTests", "integration", "component">>
  /\ Len(outputs) = 2
  /\ outputs[1].name = "integration-tests"
  /\ outputs[2].name = "component-tests"
  /\ outputs[2].value # <<>>

(***************************************************************************)
(* The files a rule yields (checked under SpecDiscover)                    *)
(***************************************************************************)
\* the exclude patterns of a rule: none when the field is not set
ExcludeList(rule) ==
  IF rule.excludeSpecPattern.t \in {"string", "array"}
  THEN rule.excludeSpecPattern.v ELSE <<>>

\* the files below the rule's root folder that match an include pattern and
\* no exclude pattern, named from the working directory
Selected(rule) ==
  {PathJoin(rule.testFolder.v[1], f) :
     f \in {g \in Below(HFiles, rule.testFolder.v[1]) :
              /\ MatchesSome(g, rule.specPattern.v)
              /\ ~MatchesSome(g, ExcludeList(rule))}}

\* C18: every rule that is evaluated without an exception yields exactly the
\* files below its root folder that match at least one include pattern and
\* no exclude pattern, each of them once.
C18_IncludeMinusExclude ==
  Parsed =>
    \A i \in 1..Len(hLog) :
      hLog[i].result.ok =>
        /\ Range(hLog[i].result.val) = Selected(hLog[i].rule)
        /\ Len(hLog[i].result.val) = Cardinality(Selected(hLog[i].rule))

\* "**/*.*" below cypress with "**/*.cy.{js,jsx,ts,tsx}" ignored: of two
\* files matching the include pattern the one matching the exclude pattern
\* is left out
C18_Witness ==
  /\ Legacy /\ hConfig.ok
  /\ hLog[1].rule.testFolder = Str(CYPRESS_FOLDER)
  /\ hLog[1].rule.specPattern = Str(P_ALL)
  /\ hLog[1].rule.excludeSpecPattern = Array(<<P_COMPONENT>>)
  /\ {E2E_FILE, INT_FILE} \subseteq HFiles
  /\ hLog[1].result = Ok(<<INT_FILE>>)

(***************************************************************************)
(* The order of the files a rule yields (checked under SpecDiscover)       *)
(***************************************************************************)
\* the tokens of the paths in ascending order of their text; a separator is
\* smaller than every letter and digit, so comparing two paths token by
\* token is comparing their texts character by character
TokenOrder ==
  <<",", ".", "..", "/", "a", "b", "cjs", "config", "cy", "cypress", "e2e",
    "integration", "js", "json", "mjs", "node_modules", "other", "pkg",
    "project", "src", "t1", "t2", "ts">>

TokenRank(t) == CHOOSE i \in 1..Len(TokenOrder) : TokenOrder[i] = t

\* p < q as strings
RECURSIVE PathLess(_, _)
PathLess(p, q) ==
  IF q = <<>> THEN FALSE
  ELSE IF p = <<>> THEN TRUE
  ELSE IF Head(p) = Head(q) THEN PathLess(Tail(p), Tail(q))
  ELSE TokenRank(Head(p)) < TokenRank(Head(q))

\* C21: the list of paths a rule yields is in ascending order of the path
\* strings, for every tree and every order in which a directory is listed.
C21_GlobSorted ==
  Parsed =>
    \A i \in 1..Len(hLog) :
      hLog[i].result.ok =>
        \A j, k \in 1..Len(hLog[i].result.val) :
          j < k => PathLess(hLog[i].result.val[j], hLog[i].result.val[k])

(***************************************************************************)
(* Which files the lookup of a config file considers (checked under Spec)  *)
(***************************************************************************)
\* the files directly in the working directory
TopLevel == {f \in fs : Basename(f) = f}

\* C22: the lookup considers only the files directly in the working
\* directory: the adapter selected is the one selected on the tree without
\* its nested files, so a nested file carrying a config file name is neither
\* selected nor counted as a second candidate.
C22_TopLevelOnly ==
  (pc # "parserFactory" /\ Listable) =>
    \E made \in {parserFactory(TopLevel, wdKind, readdirOrder)} :
      /\ made.ok
      /\ created = (IF made.val = "none" THEN <<>> ELSE <<made.val>>)

(***************************************************************************)
(* The typed-script adapter (checked under SpecDiscover)                   *)
(***************************************************************************)
\* the operations among the effects of the invocation
EffectOps == {hEffects[i].op : i \in 1..Len(hEffects)}

\* C23: when transpiling cypress.config.ts reports diagnostics, loadConfig
\* throws before the transpiled text is written and before a module is
\* loaded: nothing is written, nothing is handed to require().
C23_ThrowsBeforeWrite ==
  (Parsed /\ hParser.val = "TS" /\ hContent.diagnostics) =>
    /\ hConfig = Throw("Error: Failed to transpile Cypress typescript config")
    /\ "writeFileSync" \notin EffectOps
    /\ "require" \notin EffectOps
    /\ hRequireCache = {}

\* a cypress.config.ts with diagnostics: the temporary directory was made,
\* and that is all
C23_Witness ==
  /\ Parsed
  /\ hParser.val = "TS"
  /\ hContent.diagnostics
  /\ hEffects = <<Effect("mkdtempSync", mkdtempSync(1))>>
  /\ ~hConfig.ok

(***************************************************************************)
(* The resolved exclude lists of the modern schema (SpecDiscover)          *)
(***************************************************************************)
\* C24: in the modern schema both resolved exclude lists hold
\* **/node_modules/**, the component exclude list holds every resolved e2e
\* include pattern; an e2e exclude list the user sets is node_modules
\* followed by the user's entries (the hot-update default is dropped), a
\* component exclude list the user sets is node_modules, the e2e include
\* patterns, then the user's entries (the snapshot defaults are dropped).
C24_ExcludeLists ==
  (Modern /\ hConfig.ok) =>
    /\ P_NODE_MODULES \in Range(hConfig.val.e2e.excludeSpecPattern.v)
    /\ P_NODE_MODULES \in Range(hConfig.val.component.excludeSpecPattern.v)
    /\ Range(hConfig.val.e2e.specPattern.v)
         \subseteq Range(hConfig.val.component.excludeSpecPattern.v)
    /\ IsSet(hContent.e2e, hContent.e2e.excludeSpecPattern) =>
         /\ hConfig.val.e2e.excludeSpecPattern.v =
              <<P_NODE_MODULES>> \o hContent.e2e.excludeSpecPattern.v
         /\ P_HOT_UPDATE \notin Range(hConfig.val.e2e.excludeSpecPattern.v)
    /\ IsSet(hContent.component, hContent.component.excludeSpecPattern) =>
         /\ hConfig.val.component.excludeSpecPattern.v =
              <<P_NODE_MODULES>> \o hConfig.val.e2e.specPattern.v
                \o hContent.component.excludeSpecPattern.v
         /\ P_SNAPSHOTS \notin Range(hConfig.val.component.excludeSpecPattern.v)
         /\ P_IMAGE_SNAPSHOTS
              \notin Range(hConfig.val.component.excludeSpecPattern.v)

\* both sections set their exclude list, the e2e section its include list
C24_Witness ==
  /\ Modern
  /\ hConfig.ok
  /\ hContent.e2e = Section(TRUE, Array(<<P_SRC, P_E2E>>), Array(<<>>))
  /\ hContent.component = Section(TRUE, Array(<<P_COMPONENT, P_ALL>>), Str(P_E2E))
  /\ hConfig.val.e2e.excludeSpecPattern.v = <<P_NODE_MODULES>>
  /\ hConfig.val.component.excludeSpecPattern.v =
       <<P_NODE_MODULES, P_SRC, P_E2E, P_E2E>>

(***************************************************************************)
(* The default export (SpecDiscover)                                       *)
(***************************************************************************)
\* C25: a script that exports {default: C} resolves to the rules of a
\* script that exports C itself: the loaded configuration is the one of the
\* same sections exported the other way.
C25_DefaultTransparent ==
  (Modern /\ ~hContent.diagnostics /\ ~hContent.loadThrows) =>
    hConfig = processConfig([hContent EXCEPT !.hasDefault = ~@])

\* a script that exports its sections under default
C25_Witness ==
  /\ Modern
  /\ hContent.hasDefault
  /\ hContent.e2e = Section(TRUE, Str(P_TS), Undefined)
  /\ hConfig.ok
  /\ hConfig.val.e2e.specPattern = Array(<<P_TS>>)

(***************************************************************************)
(* Invocations in one process (checked under SpecRuns)                     *)
(***************************************************************************)
\* C26: an invocation uses the config file as it is on disk at that time,
\* whichever adapter is selected: what loadConfig returns is what the
\* file's current content resolves to, in a second invocation as in the
\* first.
C26_EachRunReadsTheFile ==
  Parsed => hConfig = loadConfig(hParser.val, hContent, HFiles, HKind, hOrder)

(***************************************************************************)
(* Symbolic links and the follow-symbolic-links input (SpecLinks)          *)
(***************************************************************************)
\* the entries of the working directory that are no symbolic links and are
\* not reached through one
WithoutLinks(files) == {f \in files : \A i \in 1..Len(f) : f[i] # SYMLINK}

\* the paths parseTests returned
ResultPaths ==
  Range(hTests.val.integrationTests) \cup Range(hTests.val.componentTests)

\* C27: whatever the follow-symbolic-links input is, a symbolic link is
\* neither listed nor descended into: the result is the one of the same
\* tree without its links, and no path of it is a link or lies behind one.
C27_LinksIgnored ==
  Parsed =>
    /\ hTests = parseTests(hParser.val, hConfig, WithoutLinks(HFiles), HKind, hOrder)
    /\ hTests.ok => WithoutLinks(ResultPaths) = ResultPaths

\* the input asks for links to be followed, the tree holds a link to a spec
\* file and a spec file behind a link to a directory: only the regular spec
\* file is found
C27_Witness ==
  /\ Parsed
  /\ hFollowSymbolicLinks
  /\ {E2E_FILE, LINK_FILE, LINKED_FILE} \subseteq hTree
  /\ hTests.ok
  /\ hTests.val.integrationTests = <<E2E_FILE>>

(***************************************************************************)
(* The include list of an evaluated rule (SpecDiscover)                    *)
(***************************************************************************)
\* C28: after the defaults are applied, the include-pattern list of every
\* rule that is evaluated holds at least one pattern, also when the
\* configuration sets testFiles or specPattern to an empty list.
C28_IncludeNonEmpty ==
  Parsed =>
    \A i \in 1..Len(hLog) :
      hLog[i].rule.specPattern.t \in {"array", "string"} =>
        hLog[i].rule.specPattern.v # <<>>

(***************************************************************************)
(* The second lookup of the config file (checked under SpecRace)           *)
(***************************************************************************)
\* C29: when the adapter's own lookup of its config file finds none or more
\* than one, although parserFactory found exactly one, loadConfig throws
\* "no supported config file found.", parseTests absorbs it and returns no
\* tests, and the run ends with "No tests found" and without outputs.
C29_SecondLookupFails ==
  (pc \notin {"parserFactory", "parseTests"} /\ parser # "none" /\ ~Finds(parser)) =>
    /\ loaded = Throw("Error: no supported config file found.")
    /\ Len(testFiles.integrationTests) = 0
    /\ Len(testFiles.componentTests) = 0
    /\ outputs = <<>>
    /\ Done => failures = <<NoTestsFailure>>

\* cypress.config.js was selected, then cypress.config.mjs appeared: the
\* run ends with "No tests found" although the tree holds spec files
C29_Witness ==
  /\ Done
  /\ parser = "JS"
  /\ Candidates("JS") = {CONFIG_JS, CONFIG_MJS}
  /\ E2E_FILE \in fs
  /\ failures = <<NoTestsFailure>>
  /\ outputs = <<>>

(***************************************************************************)
(* What an invocation changes outside of its outputs (SpecDiscover)        *)
(***************************************************************************)
\* the effects that create something on disk
Writes ==
  {i \in 1..Len(hEffects) : hEffects[i].op \in {"mkdtempSync", "writeFileSync"}}

\* every directory or file created lies below os.tmpdir(), and a file is
\* written into a directory the same invocation made before
WritesOnlyInTemp ==
  /\ Writes # {} => (Parsed /\ hParser.val = "TS")
  /\ \A i \in Writes :
       /\ IsPrefix(TMP_ROOT \o <<"/">>, hEffects[i].path)
       /\ hEffects[i].op = "writeFileSync" =>
            \E j \in 1..(i - 1) :
              /\ hEffects[j].op = "mkdtempSync"
              /\ IsPrefix(hEffects[j].path \o <<"/">>, hEffects[i].path)

\* C30: an invocation never changes the process's current directory and
\* never creates, changes or removes anything in the tree; all it writes is
\* the transpiled config of the typed-script adapter, into a temporary
\* directory it has just made below os.tmpdir().
C30_AmbientUnchanged ==
  /\ []WritesOnlyInTemp
  /\ [][hCwd' = hCwd /\ hTree' = hTree]_vars

\* a cypress.config.ts was transpiled, written into the new temporary
\* directory and loaded, with the working directory given as an input
C30_Witness ==
  /\ Parsed
  /\ hParser.val = "TS"
  /\ hWorkingDirectory = PROJECT
  /\ hCwd = <<>>
  /\ hEffects = <<Effect("mkdtempSync", mkdtempSync(1)),
                  Effect("writeFileSync", jsConfigPath(1)),
                  Effect("require", jsConfigPath(1))>>
  /\ hTests.ok

=============================================================================
